---------------------------- MODULE Spec2Model ----------------------------
(***************************************************************************)
(* A model of roadftp's FTPClient (src/src/roadftp/ftp.py): one session,   *)
(* its control connection, the transient data connections, and the FTP     *)
(* server as the environment.                                              *)
(*                                                                         *)
(* The client is single-threaded.  Every public method is a straight-line  *)
(* sequence of steps (a socket call, a read of a response, a pure          *)
(* computation); `call` names the method in progress and `pc` is the index *)
(* of its next step (0: no call in progress, the caller may start one).    *)
(* The server owes one response for every command written; what the       *)
(* response says is drawn from the server's possible responses when the    *)
(* client reads it.  A socket operation may fail (timeout, reset): each    *)
(* such step has a raising outcome.                                        *)
(*                                                                         *)
(* Spec follows the session with responses and data by what they answer   *)
(* and how long they are.  ReadResponseSpec follows _read_response one     *)
(* character at a time, PasvSpec the address _data_connection connects to, *)
(* and RoundTripSpec an upload and a download one byte at a time.          *)
(*                                                                         *)
(* config.secure is False (the default, line 36): lines 60-62 and 109-111  *)
(* are not taken.  Sockets the program drops without closing them are      *)
(* counted as open: Python leaves the time of their collection open.       *)
(***************************************************************************)
EXTENDS Integers, Sequences, FiniteSets, TLC

(* ------------------------------ bounds -------------------------------- *)

\* Earlier control connections left open that the model follows.
MaxOldCtrl == 1
\* Data connections left open by earlier calls that the model follows.
MaxOldData == 2
\* Responses an earlier call left unread with which a command is still written.
MaxStale == 1
\* Bytes the server sends, or the local source holds, in one transfer.
MaxLen == 2
\* Continuation lines before the terminating line of a response.
MaxCont == 1
\* Lines in the control stream when one _read_response is followed alone.
MaxLines == 3
\* Chunks of 8192 bytes in the file of an upload followed byte by byte.
MaxChunks == 2
\* Times the network hands over less than what is at hand in such a run.
MaxPartial == 1

(* ------------------------ constants of the code ----------------------- *)

\* recv(8192), f.read(8192)
BufSize == 8192

(* ------------------------------- wire --------------------------------- *)

\* A token of a response line after its first four characters: an integer,
\* a word, a double-quoted string, or a parenthesized group of six
\* comma-separated integers.
TInt(n) == [t |-> "int", v |-> n]
TWord == [t |-> "word", v |-> 0]
THostPort == [t |-> "hostport", v |-> 0]
TQuoted == [t |-> "quoted", v |-> 0]

\* The reply codes the server draws from.  150 is a preliminary reply: the
\* server sends it only for a transfer command, and a final reply follows.
ReplyCodes == {150, 213, 227, 230, 250, 257, 350, 550}
FinalCodes == ReplyCodes \ {150}

\* What the server may put after the code on the terminating line.
BodiesOf(code) ==
    CASE code = 213 -> { << >>, <<TWord>>, <<TInt(7)>> }
      [] code = 227 -> { <<TWord>>, <<THostPort>> }
      [] code = 257 -> { <<TWord>>, <<TQuoted>> }
      [] OTHER -> { <<TWord>> }

\* A line of the control stream: the integer of its first three characters,
\* its 4th character ("" when the line is shorter than 4 characters), and
\* the tokens after it.
Line(code, c4, body) == [code |-> code, c4 |-> c4, body |-> body]

\* A response as the server writes it: k continuation lines "ddd-", then
\* the terminating line "ddd <body>".
RECURSIVE ContLines(_, _)
ContLines(code, k) ==
    IF k = 0 THEN << >>
    ELSE <<Line(code, "-", << >>)>> \o ContLines(code, k - 1)

Response(code, k, body) == ContLines(code, k) \o <<Line(code, " ", body)>>

\* The control stream holds, for every response the server owes or has
\* written, what it answers: "greeting", "reply" (to a command), "xfer" (to
\* LIST, RETR or STOR: it may be preliminary) or "final" (the end of a
\* transfer).  The responses the server may write for each:
ServerResponses(kind) ==
    UNION { { Response(c, k, b) : k \in 0..MaxCont, b \in BodiesOf(c) } :
            c \in (IF kind = "xfer" THEN ReplyCodes ELSE FinalCodes) }

TransferCmds == {"LIST", "RETR", "STOR"}
KindOf(cmd) == IF cmd \in TransferCmds THEN "xfer" ELSE "reply"

\* _read_response's loop (lines 74-78) over the lines of the stream: the
\* index of the first line of at least 4 characters whose 4th character is
\* a space, 0 when the stream holds none.
RECURSIVE ReadLines(_, _)
ReadLines(s, k) ==
    IF k > Len(s) THEN 0
    ELSE IF s[k].c4 = " " THEN k
    ELSE ReadLines(s, k + 1)

\* _read_response (lines 72-82) on a stream that holds a terminating line:
\* the lines consumed, the code of the last one, and the message.
_read_response(s) ==
    LET n == ReadLines(s, 1)
    IN  [n |-> n, code |-> s[n].code, message |-> SubSeq(s, 1, n)]

(* --------------------------- the methods ------------------------------ *)

\* One step of a method.  catch: the step a failure of this step resumes
\* at (inside try/except), 0 when the failure propagates to the caller.
Step(i) == [i |-> i, cmd |-> "", expect |-> 0, catch |-> 0]

\* Mutant of _command: the response to the command is never read.
_command_unread(cmd, expect) ==
    << [i |-> "sendall", cmd |-> cmd, expect |-> expect, catch |-> 0] >>

\* _command(cmd, expect), lines 84-90: sendall, then _read_response and the
\* check of the expected code.  expect 0 stands for None.
_command(cmd, expect) ==
    << [i |-> "sendall", cmd |-> cmd, expect |-> expect, catch |-> 0],
       [i |-> "read", cmd |-> cmd, expect |-> expect, catch |-> 0] >>

\* try: <steps> except Exception: pass, resuming at step h of the method.
Try(steps, h) == [k \in 1..Len(steps) |-> [steps[k] EXCEPT !.catch = h]]

\* Mutant of connect: the reply to USER is checked against 331.
connect_validating ==
    <<Step("open"), Step("read")>>
        \o _command("USER", 331) \o _command("PASS", 0) \o <<Step("ret")>>

\* connect, lines 55-70.
connect ==
    <<Step("open"), Step("read")>>
        \o _command("USER", 0) \o _command("PASS", 0) \o <<Step("ret")>>

\* _pasv, lines 92-102.
_pasv == _command("PASV", 0) \o <<Step("pasv")>>

\* _data_connection, lines 104-112.
_data_connection == _pasv \o <<Step("dconnect")>>

\* pwd, cwd, mkd, rmd, delete, lines 114-129, and size, lines 135-139.
pwd == _command("PWD", 0) \o <<Step("ret")>>
cwd == _command("CWD", 250) \o <<Step("ret")>>
mkd == _command("MKD", 257) \o <<Step("ret")>>
rmd == _command("RMD", 250) \o <<Step("ret")>>
delete == _command("DELE", 250) \o <<Step("ret")>>
\* Mutant of rename: the reply to RNFR is not checked against 350.
rename_unchecked ==
    _command("RNFR", 0) \o _command("RNTO", 250) \o <<Step("ret")>>

\* rename, lines 131-133.
rename == _command("RNFR", 350) \o _command("RNTO", 250) \o <<Step("ret")>>
size == _command("SIZE", 0) \o <<Step("ret")>>

\* Mutant of list: LIST is written and its reply is not read before the data.
list_unread ==
    _data_connection \o _command_unread("LIST", 0)
        \o <<Step("recv"), Step("dclose"), Step("read"), Step("ret")>>

\* list, lines 141-159.
list ==
    _data_connection \o _command("LIST", 0)
        \o <<Step("recv"), Step("dclose"), Step("read"), Step("ret")>>

\* Mutant of download: the final response is read before data_sock.close().
download_read_first ==
    _data_connection \o _command("TYPE", 0) \o _command("RETR", 0)
        \o <<Step("fopen"), Step("recv"), Step("read"), Step("dclose"), Step("ret")>>

\* download, lines 175-191.
download ==
    _data_connection \o _command("TYPE", 0) \o _command("RETR", 0)
        \o <<Step("fopen"), Step("recv"), Step("dclose"), Step("read"), Step("ret")>>

\* upload, lines 193-209.
upload ==
    _data_connection \o _command("TYPE", 0) \o _command("STOR", 0)
        \o <<Step("fopen"), Step("send"), Step("dclose"), Step("read"), Step("ret")>>

\* close, lines 211-217.
close == Try(_command("QUIT", 0), 3) \o <<Step("sclose"), Step("ret")>>

\* __enter__, lines 219-220, and connect(host, ...), lines 226-228.
enter == connect
connect_fn == connect

\* __exit__, lines 222-223.
exit == close

SimpleMethods == {"pwd", "cwd", "mkd", "rmd", "delete", "size"}
DataMethods == {"list", "download", "upload"}
ConnectMethods == {"connect", "__enter__", "connect()"}
CloseMethods == {"close", "__exit__"}
Methods ==
    SimpleMethods \cup DataMethods \cup ConnectMethods \cup CloseMethods
        \cup {"rename"}

Body(m) ==
    CASE m = "connect" -> connect
      [] m = "pwd" -> pwd
      [] m = "cwd" -> cwd
      [] m = "mkd" -> mkd
      [] m = "rmd" -> rmd
      [] m = "delete" -> delete
      [] m = "rename" -> rename
      [] m = "size" -> size
      [] m = "list" -> list
      [] m = "download" -> download
      [] m = "upload" -> upload
      [] m = "close" -> close
      [] m = "__enter__" -> enter
      [] m = "connect()" -> connect_fn
      [] m = "__exit__" -> exit

(* ------------------------------ state --------------------------------- *)

VARIABLES
    call,       \* the method in progress, or the last one called ("init": none yet)
    pc,         \* the index of its next step in Body(call); 0: not in a call
    _socket,    \* self._socket: "None", "new" (created, not connected),
                \*   "conn" (connected), "closed" (close() was called on it)
    _file,      \* self._file: "None", "cur" (made from the socket _socket
                \*   names), "old" (made from a socket _socket named before)
    oldCtrl,    \* connected control sockets self._socket named before, never closed
    ctrlIn,     \* the responses the client has not read from the control
                \*   connection, oldest first, each by what it answers
    srvClosed,  \* the server closes its end after the responses in ctrlIn
    data_sock,  \* the method's local data_sock: "None", "open", "closed"
    oldData,    \* data sockets of earlier calls that were never closed
    dataIn,     \* the bytes the server still has to send on the data connection
    src,        \* upload: the bytes of the local source not read yet
    total,      \* the bytes received or sent so far (download, upload: total)
    wire,       \* the commands this call has written on the control connection
    nread,      \* the responses this call has read from the control connection
    reply,      \* the (code, message) the last _read_response of the call
                \*   returned, and what the response answered
    prev,       \* the call before this one raised the FTPError of line 89
    err,        \* the exception the call raised to its caller
    result,     \* what the call returned
    spin        \* _read_response is reading empty lines at end of stream

\* The session above follows responses and data by what they answer and how
\* long they are.  Three parts of the code are also followed on their own,
\* character by character and byte by byte:
VARIABLES
    rr,         \* one run of _read_response: its locals and the control stream
    pv,         \* one run of _data_connection: the PASV message, the address
    rt          \* an upload then a download of the same remote path

sessionVars ==
    <<call, pc, _socket, _file, oldCtrl, ctrlIn, srvClosed, data_sock,
      oldData, dataIn, src, total, wire, nread, reply, prev, err, result, spin>>
unitVars == <<rr, pv, rt>>
vars == <<sessionVars, unitVars>>

ctrlVars == <<_socket, _file, oldCtrl>>
srvVars == <<ctrlIn, srvClosed>>
dataVars == <<dataIn, src, total>>
readVars == <<nread, reply, prev>>

Min(a, b) == IF a < b THEN a ELSE b

NoReply == [code |-> 0, message |-> << >>, kind |-> ""]
NoResult == [t |-> "none", n |-> 0]

\* An exception: its class, and for an FTPError the parts of its text.
Exc(type, text, expect, code, message) ==
    [type |-> type, text |-> text, expect |-> expect, code |-> code,
     message |-> message]
NoErr == Exc("none", "", 0, 0, << >>)
OSError == Exc("OSError", "", 0, 0, << >>)
AttributeError == Exc("AttributeError", "", 0, 0, << >>)
ValueError == Exc("ValueError", "", 0, 0, << >>)

\* Mutant of ExpectedError: the text holds the last line of the response
\* in place of the message.
ExpectedErrorLastLine(expect, code, message) ==
    Exc("FTPError", "Expected", expect, code, <<message[Len(message)]>>)

\* Line 89: FTPError(f"Expected {expect}, got {code}: {message}").
ExpectedError(expect, code, message) ==
    Exc("FTPError", "Expected", expect, code, message)

\* Line 88: if expect and code != expect.
Mismatch(expect, code) == expect # 0 /\ code # expect

\* The step the call is at.
Cur == Body(call)[pc]
At(i) == pc > 0 /\ ~spin /\ Cur.i = i

\* socket.close() (line 217) releases the descriptor only when no file made
\* from the socket (makefile, line 64) is open; self._file is never closed.
\* The connection self._socket names is open:
CtrlConnOpen == _socket = "conn" \/ (_socket = "closed" /\ _file = "cur")

\* The control connections of the session that are open.
OpenCtrl == oldCtrl + (IF CtrlConnOpen THEN 1 ELSE 0)

\* The data connections of the session that are open.
OpenData == oldData + (IF data_sock = "open" THEN 1 ELSE 0)

\* The responses to commands written that the client has not consumed.
Pending == Cardinality({k \in 1..Len(ctrlIn) : ctrlIn[k] # "greeting"})

(* ------------------------------ steps --------------------------------- *)

\* The call ends: its local data_sock goes out of scope as it is.
Leave ==
    /\ pc' = 0
    /\ data_sock' = "None"
    /\ oldData' = IF data_sock = "open" THEN oldData + 1 ELSE oldData

\* Mutant of Raise: the error is recorded and the method goes on.
RaiseAndGoOn(e) ==
    err' = e /\ pc' = pc + 1 /\ UNCHANGED <<data_sock, oldData>>

\* The step raises e: caught by the enclosing try, or raised to the caller.
Raise(e) ==
    IF Cur.catch # 0
    THEN pc' = Cur.catch /\ err' = err /\ UNCHANGED <<data_sock, oldData>>
    ELSE err' = e /\ Leave

\* The step is done; the next one follows.
Advance == pc' = pc + 1 /\ err' = err /\ UNCHANGED <<data_sock, oldData>>

\* No run of the part is followed.
NoRun == [pc |-> "none"]

\* __init__, lines 50-53: the session after construction.
SessionInit ==
    /\ call = "init" /\ pc = 0
    /\ _socket = "None" /\ _file = "None" /\ oldCtrl = 0
    /\ ctrlIn = << >> /\ srvClosed = FALSE
    /\ data_sock = "None" /\ oldData = 0
    /\ dataIn = 0 /\ src = 0 /\ total = 0
    /\ wire = << >> /\ nread = 0 /\ reply = NoReply /\ prev = FALSE
    /\ err = NoErr /\ result = NoResult /\ spin = FALSE

Init == SessionInit /\ rr = NoRun /\ pv = NoRun /\ rt = NoRun

\* The caller calls method m.
Call(m) ==
    /\ pc = 0 /\ ~spin
    /\ m = "connect()" => call = "init"
    /\ (m \in ConnectMethods /\ CtrlConnOpen) => oldCtrl < MaxOldCtrl
    /\ m \in DataMethods => oldData < MaxOldData
    /\ call' = m /\ pc' = 1
    /\ wire' = << >> /\ nread' = 0 /\ reply' = NoReply /\ prev' = (err.text = "Expected")
    /\ err' = NoErr /\ result' = NoResult
    /\ src' = 0 /\ total' = 0
    /\ UNCHANGED <<unitVars, ctrlVars, srvVars, data_sock, oldData, dataIn, spin>>

\* Lines 56-58 and 64: a new socket replaces self._socket and connects; on
\* success makefile replaces self._file, and the server owes its greeting.
SocketOpen ==
    /\ At("open")
    /\ oldCtrl' = IF CtrlConnOpen THEN oldCtrl + 1 ELSE oldCtrl
    /\ \/ /\ _socket' = "conn" /\ _file' = "cur"
          /\ ctrlIn' = <<"greeting">>
          /\ Advance
       \/ /\ _socket' = "new"
          /\ _file' = IF _file = "cur" THEN "old" ELSE _file
          /\ ctrlIn' = << >>
          /\ Raise(OSError)
    /\ srvClosed' = FALSE
    /\ UNCHANGED <<unitVars, call, dataVars, wire, readVars, result, spin>>

\* Line 86: self._socket.sendall(cmd).  The server, unless it has closed,
\* owes a response to the command; after QUIT it closes the connection.
Sendall ==
    /\ At("sendall")
    /\ \/ /\ CtrlConnOpen
          /\ Len(ctrlIn) <= MaxStale
          /\ wire' = Append(wire, Cur.cmd)
          /\ ctrlIn' = IF srvClosed THEN ctrlIn
                       ELSE Append(ctrlIn, KindOf(Cur.cmd))
          /\ srvClosed' = (srvClosed \/ Cur.cmd = "QUIT")
          /\ Advance
       \/ /\ Raise(IF _socket = "None" THEN AttributeError ELSE OSError)
          /\ UNCHANGED <<wire, srvVars>>
    /\ UNCHANGED <<unitVars, call, ctrlVars, dataVars, readVars, result, spin>>

\* Lines 87-90 (and the bare _read_response() of lines 65, 152, 190, 208,
\* where expect is None): read one response, check the expected code.
ReadResponse ==
    /\ At("read")
    /\ \/ /\ ctrlIn # << >>
          /\ \E lines \in ServerResponses(Head(ctrlIn)), n \in 0..MaxLen :
                LET r == _read_response(lines)
                    prelim == Head(ctrlIn) = "xfer" /\ r.code = 150
                IN  /\ ctrlIn' = (IF prelim THEN <<"final">> ELSE << >>)
                                    \o Tail(ctrlIn)
                    /\ dataIn' = IF prelim THEN n ELSE dataIn
                    /\ reply' = [code |-> r.code, message |-> r.message,
                                 kind |-> Head(ctrlIn)]
                    /\ nread' = nread + 1
                    /\ IF Mismatch(Cur.expect, r.code)
                       THEN Raise(ExpectedError(Cur.expect, r.code, r.message))
                       ELSE Advance
          /\ UNCHANGED spin
       \/ \* the read times out
          /\ ~(ctrlIn = << >> /\ srvClosed)
          /\ Raise(OSError)
          /\ UNCHANGED <<ctrlIn, dataIn, nread, reply, spin>>
       \/ \* end of stream: readline returns "" and the loop goes on
          /\ ctrlIn = << >> /\ srvClosed
          /\ spin' = TRUE
          /\ UNCHANGED <<ctrlIn, dataIn, nread, reply, pc, err, data_sock,
                         oldData>>
    /\ UNCHANGED <<unitVars, call, ctrlVars, srvClosed, src, total, wire, prev, result>>

\* Line 96: re.search finds a parenthesized group of six integers.
RECURSIVE HasHostPort(_)
HasHostPort(message) ==
    /\ message # << >>
    /\ \/ \E k \in 1..Len(Head(message).body) :
             Head(message).body[k].t = "hostport"
       \/ HasHostPort(Tail(message))

\* Mutant of PasvCheck: a 227 reply is not searched for the six integers.
PasvCheckNoSearch ==
    /\ At("pasv")
    /\ IF reply.code # 227
       THEN Raise(Exc("FTPError", "PASV failed", 0, 0, reply.message))
       ELSE Advance
    /\ UNCHANGED <<unitVars, call, ctrlVars, srvVars, dataVars, wire, readVars,
                   result, spin>>

\* Lines 94-98: the checks of _pasv on the reply to PASV.
PasvCheck ==
    /\ At("pasv")
    /\ IF reply.code # 227
       THEN Raise(Exc("FTPError", "PASV failed", 0, 0, reply.message))
       ELSE IF ~HasHostPort(reply.message)
       THEN Raise(Exc("FTPError", "Invalid PASV response", 0, 0, << >>))
       ELSE Advance
    /\ UNCHANGED <<unitVars, call, ctrlVars, srvVars, dataVars, wire, readVars,
                   result, spin>>

\* Lines 106-108 and, in the caller, the binding of data_sock: a new socket
\* connects to the address of the PASV reply.
DataConnect ==
    /\ At("dconnect")
    /\ \/ /\ pc' = pc + 1 /\ err' = err
          /\ data_sock' = "open" /\ oldData' = oldData
          /\ dataIn' = 0
       \/ Raise(OSError) /\ dataIn' = dataIn
    /\ UNCHANGED <<unitVars, call, ctrlVars, srvVars, src, total, wire, readVars,
                   result, spin>>

\* Line 182, open(local, "wb"), and line 200, open(local, "rb").
FileOpen ==
    /\ At("fopen")
    /\ \/ /\ IF call = "upload"
             THEN \E n \in 0..MaxLen : src' = n
             ELSE src' = src
          /\ Advance
       \/ Raise(OSError) /\ src' = src
    /\ UNCHANGED <<unitVars, call, ctrlVars, srvVars, dataIn, total, wire, readVars,
                   result, spin>>

\* Lines 146-150 and 183-188: one pass of the receiving loop.  recv returns
\* between 1 and 8192 of the bytes in flight, or b"" once the server has
\* sent everything and closed the data connection.
Recv ==
    /\ At("recv")
    /\ \/ /\ dataIn > 0
          /\ \E k \in 1..Min(BufSize, dataIn) :
                /\ total' = total + k
                /\ dataIn' = dataIn - k
          /\ UNCHANGED <<pc, err, data_sock, oldData>>
       \/ /\ dataIn = 0
          /\ Advance
          /\ UNCHANGED <<dataIn, total>>
       \/ /\ Raise(OSError)
          /\ UNCHANGED <<dataIn, total>>
    /\ UNCHANGED <<unitVars, call, ctrlVars, srvVars, src, wire, readVars, result, spin>>

\* Lines 201-206: one pass of the sending loop.
SendChunk ==
    /\ At("send")
    /\ LET chunk == Min(BufSize, src)
       IN  \/ /\ chunk = 0
              /\ Advance
              /\ UNCHANGED <<src, total>>
           \/ /\ chunk > 0
              /\ src' = src - chunk
              /\ total' = total + chunk
              /\ UNCHANGED <<pc, err, data_sock, oldData>>
           \/ /\ chunk > 0
              /\ Raise(OSError)
              /\ UNCHANGED <<src, total>>
    /\ UNCHANGED <<unitVars, call, ctrlVars, srvVars, dataIn, wire, readVars, result, spin>>

\* Lines 151, 189, 207: data_sock.close().
DataClose ==
    /\ At("dclose")
    /\ data_sock' = "closed"
    /\ pc' = pc + 1
    /\ UNCHANGED <<unitVars, call, ctrlVars, srvVars, oldData, dataVars, wire, readVars,
                   err, result, spin>>

\* Lines 216-217: if self._socket: self._socket.close().
SocketClose ==
    /\ At("sclose")
    /\ _socket' = IF _socket = "None" THEN "None" ELSE "closed"
    /\ Advance
    /\ UNCHANGED <<unitVars, call, _file, oldCtrl, srvVars, dataVars, wire, readVars,
                   result, spin>>

\* Mutant of SizeOf: a reply that is not 213 is treated like a 213 reply.
SizeOfAnyCode(code, message) ==
    LET last == message[Len(message)]
        tok == IF last.body = << >> THEN TInt(last.code)
               ELSE last.body[Len(last.body)]
    IN  IF tok.t = "int" THEN [t |-> "int", n |-> tok.v]
        ELSE [t |-> "raise", n |-> 0]

\* Lines 137-139: the value size returns for a reply (code, msg); "raise"
\* when int() raises ValueError on the last token of the message.
SizeOf(code, message) ==
    IF code = 213
    THEN LET last == message[Len(message)]
             tok == IF last.body = << >> THEN TInt(last.code)
                    ELSE last.body[Len(last.body)]
         IN  IF tok.t = "int" THEN [t |-> "int", n |-> tok.v]
             ELSE [t |-> "raise", n |-> 0]
    ELSE [t |-> "int", n |-> 0]

\* Lines 116-117: pwd returns the first double-quoted substring of the
\* message (n = 1), "" when there is none (n = 0).
RECURSIVE HasQuoted(_)
HasQuoted(message) ==
    /\ message # << >>
    /\ \/ \E k \in 1..Len(Head(message).body) :
             Head(message).body[k].t = "quoted"
       \/ HasQuoted(Tail(message))

PwdOf(message) == [t |-> "str", n |-> IF HasQuoted(message) THEN 1 ELSE 0]

\* What the method returns once its steps are done (list: the entries
\* parsed from the bytes received, by their number of bytes).
ReturnValue ==
    CASE call = "size" -> SizeOf(reply.code, reply.message)
      [] call = "pwd" -> PwdOf(reply.message)
      [] call \in {"download", "upload"} -> [t |-> "int", n |-> total]
      [] call = "list" -> [t |-> "entries", n |-> total]
      [] call \in ConnectMethods -> [t |-> "self", n |-> 0]
      [] OTHER -> [t |-> "None", n |-> 0]

\* The method returns (or its last computation raises).
Return ==
    /\ At("ret")
    /\ IF ReturnValue.t = "raise"
       THEN err' = ValueError /\ result' = result
       ELSE err' = err /\ result' = ReturnValue
    /\ Leave
    /\ UNCHANGED <<unitVars, call, ctrlVars, srvVars, dataVars, wire, readVars, spin>>

Next ==
    \/ \E m \in Methods : Call(m)
    \/ SocketOpen
    \/ Sendall
    \/ ReadResponse
    \/ PasvCheck
    \/ DataConnect
    \/ FileOpen
    \/ Recv
    \/ SendChunk
    \/ DataClose
    \/ SocketClose
    \/ Return

Spec == Init /\ [][Next]_vars

(* ------------------ _read_response, line by line ---------------------- *)

\* A line is a sequence of characters; CR and LF are "\r" and "\n".
CR == "CR"
LF == "LF"

\* The lines the server may write on the control connection: a continuation
\* line, terminating lines (one ended by a bare LF, one of exactly four
\* characters), a line of two characters, an empty line, and a line with a
\* space in 4th place whose first three characters are no integer.
ServerLines ==
    { <<"2", "2", "0", "-", "h", "i", CR, LF>>,
      <<"2", "2", "0", " ", "o", "k", CR, LF>>,
      <<"5", "5", "0", " ", "n", "o", LF>>,
      <<"2", "3", "0", " ", CR, LF>>,
      <<"2", "2", CR, LF>>,
      <<CR, LF>>,
      <<"a", "b", "c", " ", "d", CR, LF>> }

\* The control streams followed: up to MaxLines lines.
Streams == UNION { [1..k -> ServerLines] : k \in 0..MaxLines }

\* str.rstrip("\r\n"), line 75: every trailing CR and LF is removed.
RECURSIVE rstrip(_)
rstrip(s) ==
    IF s # << >> /\ s[Len(s)] \in {CR, LF}
    THEN rstrip(SubSeq(s, 1, Len(s) - 1))
    ELSE s

\* int(s), line 79, for the strings met here (no blank, sign or underscore):
\* the value of a non-empty string of decimal digits, -1 for ValueError.
DigitOf(c) ==
    CASE c = "0" -> 0 [] c = "1" -> 1 [] c = "2" -> 2 [] c = "3" -> 3
      [] c = "4" -> 4 [] c = "5" -> 5 [] c = "6" -> 6 [] c = "7" -> 7
      [] c = "8" -> 8 [] c = "9" -> 9 [] OTHER -> -1

RECURSIVE int(_)
int(s) ==
    IF s = << >> THEN -1
    ELSE LET d == DigitOf(s[Len(s)])
             front == SubSeq(s, 1, Len(s) - 1)
         IN  IF d = -1 THEN -1
             ELSE IF front = << >> THEN d
             ELSE IF int(front) = -1 THEN -1
             ELSE 10 * int(front) + d

\* "\n".join(lines), line 80.
RECURSIVE join(_)
join(ls) ==
    IF ls = << >> THEN << >>
    ELSE IF Len(ls) = 1 THEN ls[1]
    ELSE ls[1] \o <<LF>> \o join(Tail(ls))

\* Mutant of Terminates: a line shorter than 4 characters ends the response.
TerminatesOrShort(line) == Len(line) < 4 \/ line[4] = " "

\* Line 77: len(line) >= 4 and line[3] == " ".
Terminates(line) == Len(line) >= 4 /\ line[4] = " "

\* Mutant of CodeOf: the code is taken from the first line read.
CodeOfFirstLine(ls) == int(SubSeq(ls[1], 1, Min(3, Len(ls[1]))))

\* Line 79: int(lines[-1][:3]).
CodeOf(ls) == int(SubSeq(ls[Len(ls)], 1, Min(3, Len(ls[Len(ls)]))))

\* The empty lines read at end of stream are kept in `lines` up to this
\* length; the loop goes on all the same.
MaxKept == MaxLines + 2

\* _read_response is entered with `stream` unread in self._file; eof: the
\* server has closed the connection after it.
InitRR ==
    /\ SessionInit /\ pv = NoRun /\ rt = NoRun
    /\ \E s \in Streams, e \in BOOLEAN :
          rr = [pc |-> "readline", input |-> s, stream |-> s, eof |-> e,
                line |-> << >>, lines |-> << >>, ret |-> [t |-> "none"]]

\* Line 75: self._file.readline().rstrip("\r\n").  readline returns the next
\* line, "" at end of stream, and raises socket.timeout when the server
\* sends nothing more and keeps the connection open.
RR_readline ==
    /\ rr.pc = "readline"
    /\ rr' = IF rr.stream # << >>
             THEN [rr EXCEPT !.line = rstrip(Head(rr.stream)),
                             !.stream = Tail(rr.stream), !.pc = "append"]
             ELSE IF rr.eof
             THEN [rr EXCEPT !.line = << >>, !.pc = "append"]
             ELSE [rr EXCEPT !.ret = [t |-> "raise", type |-> "OSError"],
                             !.pc = "raised"]
    /\ UNCHANGED <<sessionVars, pv, rt>>

\* Lines 76-78: lines.append(line); break on a terminating line.
RR_append ==
    /\ rr.pc = "append"
    /\ rr' = [rr EXCEPT
                !.lines = IF Len(rr.lines) >= MaxKept THEN rr.lines
                          ELSE Append(rr.lines, rr.line),
                !.pc = IF Terminates(rr.line) THEN "code" ELSE "readline"]
    /\ UNCHANGED <<sessionVars, pv, rt>>

\* Lines 79-82: the code of the last line, the message, the return.
RR_return ==
    /\ rr.pc = "code"
    /\ rr' = IF CodeOf(rr.lines) = -1
             THEN [rr EXCEPT !.ret = [t |-> "raise", type |-> "ValueError"],
                             !.pc = "raised"]
             ELSE [rr EXCEPT !.ret = [t |-> "return",
                                      code |-> CodeOf(rr.lines),
                                      message |-> join(rr.lines)],
                             !.pc = "done"]
    /\ UNCHANGED <<sessionVars, pv, rt>>

NextRR == RR_readline \/ RR_append \/ RR_return

\* The client is one thread: a step that can be taken is taken.
ReadResponseSpec == InitRR /\ [][NextRR]_vars /\ WF_vars(NextRR)

(* ------------- _pasv and _data_connection, the address ---------------- *)

\* str(n), line 100, for n >= 0: its decimal digits.
DigitChar(d) ==
    CASE d = 0 -> "0" [] d = 1 -> "1" [] d = 2 -> "2" [] d = 3 -> "3"
      [] d = 4 -> "4" [] d = 5 -> "5" [] d = 6 -> "6" [] d = 7 -> "7"
      [] d = 8 -> "8" [] d = 9 -> "9"

RECURSIVE str(_)
str(n) ==
    IF n < 10 THEN <<DigitChar(n)>>
    ELSE str(n \div 10) \o <<DigitChar(n % 10)>>

\* ".".join(ls), line 100.
RECURSIVE dotjoin(_)
dotjoin(ls) ==
    IF ls = << >> THEN << >>
    ELSE IF Len(ls) = 1 THEN ls[1]
    ELSE ls[1] \o <<".">> \o dotjoin(Tail(ls))

\* The message of a reply is followed as a sequence of parts: plain text,
\* or "(" d1 "," d2 "," ... ")" with every d a string of decimal digits.
PText == [t |-> "text"]
PGroup(items) == [t |-> "group", items |-> items]

\* The pattern of line 96 matches a part: a parenthesized group of exactly
\* six strings of one or more digits.
Matches(part) ==
    /\ part.t = "group" /\ Len(part.items) = 6
    /\ \A k \in 1..6 : part.items[k] # << >>

\* re.search(...), line 96: the place of the first match in msg, 0 for None.
search(msg) ==
    IF \E k \in 1..Len(msg) : Matches(msg[k])
    THEN CHOOSE k \in 1..Len(msg) :
            Matches(msg[k]) /\ \A j \in 1..(k - 1) : ~Matches(msg[j])
    ELSE 0

\* Mutant of PortOf: the two port integers are taken in the other order.
PortOfSwapped(parts) == parts[6] * 256 + parts[5]

\* Lines 100 and 101: host and port from the six integers.
HostOf(parts) == dotjoin([k \in 1..4 |-> str(parts[k])])
PortOf(parts) == parts[5] * 256 + parts[6]

\* The integers the server may put in its PASV reply, by place, and how it
\* writes one: plainly, or with a leading zero.
PasvInts ==
    [h1 : {192, 0}, h2 : {168, 256}, h3 : {1}, h4 : {5, 255},
     p1 : {0, 200, 256}, p2 : {10, 255, 300}]
Ints(i) == <<i.h1, i.h2, i.h3, i.h4, i.p1, i.p2>>
Written(n, pad) == IF pad THEN <<"0">> \o str(n) ELSE str(n)
Group(ints, pad) == PGroup([k \in 1..Len(ints) |-> Written(ints[k], pad)])

\* The messages followed for six integers: the group after text, after a
\* group of five, before another group of six; and a message without a
\* group of six.
PasvMessages(ints, pad) ==
    { <<PText, Group(ints, pad), PText>>,
      <<Group(SubSeq(ints, 1, 5), pad), PText, Group(ints, pad)>>,
      <<Group(ints, pad), Group(<<127, 0, 0, 1, 0, 21>>, pad)>>,
      <<PText, Group(ints \o <<7>>, pad)>> }

\* _pasv has read a 227 reply (line 94 passed) with message msg; ints are
\* the integers the server wrote in it.
InitPV ==
    /\ SessionInit /\ rr = NoRun /\ rt = NoRun
    /\ \E i \in PasvInts, pad \in BOOLEAN :
          \E m \in PasvMessages(Ints(i), pad) :
             pv = [pc |-> "search", ints |-> Ints(i), msg |-> m,
                   parts |-> << >>, host |-> << >>, port |-> 0,
                   addr |-> [t |-> "none"], ret |-> [t |-> "none"]]

\* Lines 96-99: the search, and the integers of the six groups.
PV_search ==
    /\ pv.pc = "search"
    /\ pv' = IF search(pv.msg) = 0
             THEN [pv EXCEPT !.ret = [t |-> "raise", type |-> "FTPError",
                                      text |-> "Invalid PASV response"],
                             !.pc = "raised"]
             ELSE [pv EXCEPT !.parts = [k \in 1..6 |->
                                          int(pv.msg[search(pv.msg)].items[k])],
                             !.pc = "address"]
    /\ UNCHANGED <<sessionVars, rr, rt>>

\* Lines 100-102 and 105: host, port = self._pasv().
PV_address ==
    /\ pv.pc = "address"
    /\ pv' = [pv EXCEPT !.host = HostOf(pv.parts), !.port = PortOf(pv.parts),
                        !.pc = "connect"]
    /\ UNCHANGED <<sessionVars, rr, rt>>

\* Lines 106-108: sock.connect((host, port)).  It raises for a host that is
\* no address (an integer above 255) and for a port above 65535, and may
\* raise for any other (refused, timed out).
PV_connect ==
    /\ pv.pc = "connect"
    /\ \/ /\ \A k \in 1..4 : pv.parts[k] <= 255
          /\ pv.port <= 65535
          /\ pv' = [pv EXCEPT !.addr = [t |-> "addr", host |-> pv.host,
                                        port |-> pv.port],
                              !.ret = [t |-> "return"], !.pc = "done"]
       \/ pv' = [pv EXCEPT !.addr = [t |-> "addr", host |-> pv.host,
                                     port |-> pv.port],
                           !.ret = [t |-> "raise", type |-> "OSError"],
                           !.pc = "raised"]
    /\ UNCHANGED <<sessionVars, rr, rt>>

NextPV == PV_search \/ PV_address \/ PV_connect

PasvSpec == InitPV /\ [][NextPV]_vars

(* ------------- upload then download, byte by byte --------------------- *)

\* The local source of the upload: n bytes, the i-th one (i + seed) % 251.
Content(n, seed) == [i \in 1..n |-> (i + seed) % 251]

\* Its sizes: 0, 1, and around every multiple of the chunk size.
Sizes ==
    {0, 1} \cup { c * BufSize + d : c \in 1..MaxChunks, d \in {-1, 0, 1} }

\* What one recv, or one read or write of the server, may move of the
\* `avail` bytes at hand: all of them, or (`partial` times so far) half.
Moves(avail, partial) ==
    {avail} \cup (IF partial < MaxPartial THEN {(avail + 1) \div 2} ELSE {})

Partial(k, avail, partial) == IF k < avail THEN partial + 1 ELSE partial

\* f.read(8192), line 202, and recv(8192) handing over k bytes, line 184.
Take(bytes, k) == SubSeq(bytes, 1, k)
Rest(bytes, k) == SubSeq(bytes, k + 1, Len(bytes))

\* Mutant of Count: a chunk counts for a full buffer.
CountFullBuffer(total_, chunk) == total_ + BufSize

\* Lines 188 and 206: total += len(chunk).
Count(total_, chunk) == total_ + Len(chunk)

\* upload(local, remote) is called on a connected session; the server
\* stores what it receives on the data connection under the remote path,
\* and sends what it stores there when the path is retrieved.
InitRT ==
    /\ SessionInit /\ rr = NoRun /\ pv = NoRun
    /\ \E n \in Sizes, seed \in {0, 100} :
          rt = [pc |-> "upload", source |-> Content(n, seed),
                f |-> << >>, chunk |-> << >>, total |-> 0,
                net |-> << >>, stored |-> << >>, toSend |-> << >>,
                dest |-> << >>, up |-> -1, down |-> -1,
                partial |-> 0, raised |-> "none"]

\* Lines 195-200: the data connection, TYPE I and STOR (the server starts
\* the remote file empty), total = 0, open(local, "rb").
RT_upload_begin ==
    /\ rt.pc = "upload"
    /\ rt' = [rt EXCEPT !.stored = << >>, !.total = 0, !.f = rt.source,
                        !.pc = "u_read"]
    /\ UNCHANGED <<sessionVars, rr, pv>>

\* Lines 202-204: chunk = f.read(8192); break when it is empty.
RT_upload_read ==
    /\ rt.pc = "u_read"
    /\ LET k == Min(BufSize, Len(rt.f))
       IN  rt' = [rt EXCEPT !.chunk = Take(rt.f, k), !.f = Rest(rt.f, k),
                            !.pc = IF k = 0 THEN "u_close" ELSE "u_send"]
    /\ UNCHANGED <<sessionVars, rr, pv>>

\* Lines 205-206: data_sock.sendall(chunk); total += len(chunk).
RT_upload_send ==
    /\ rt.pc = "u_send"
    /\ \/ rt' = [rt EXCEPT !.net = rt.net \o rt.chunk,
                            !.total = Count(rt.total, rt.chunk),
                            !.pc = "u_read"]
       \/ rt' = [rt EXCEPT !.raised = "upload", !.pc = "raised"]
    /\ UNCHANGED <<sessionVars, rr, pv>>

\* The server reads bytes of the upload and appends them to the file.
SRV_store ==
    /\ rt.pc \in {"u_read", "u_send", "u_close", "u_final"}
    /\ rt.net # << >>
    /\ \E k \in Moves(Len(rt.net), rt.partial) :
          rt' = [rt EXCEPT !.stored = rt.stored \o Take(rt.net, k),
                          !.net = Rest(rt.net, k),
                          !.partial = Partial(k, Len(rt.net), rt.partial)]
    /\ UNCHANGED <<sessionVars, rr, pv>>

\* Line 207: data_sock.close().
RT_upload_close ==
    /\ rt.pc = "u_close"
    /\ rt' = [rt EXCEPT !.pc = "u_final"]
    /\ UNCHANGED <<sessionVars, rr, pv>>

\* Lines 208-209: the final response, which the server writes once it has
\* read the data to its end; return total.
RT_upload_return ==
    /\ rt.pc = "u_final"
    /\ rt.net = << >>
    /\ rt' = [rt EXCEPT !.up = rt.total, !.pc = "download"]
    /\ UNCHANGED <<sessionVars, rr, pv>>

\* Lines 177-182: the data connection, TYPE I and RETR of the same path
\* (the server starts sending the file), total = 0, open(local, "wb").
RT_download_begin ==
    /\ rt.pc = "download"
    /\ rt' = [rt EXCEPT !.toSend = rt.stored, !.total = 0, !.dest = << >>,
                        !.partial = 0, !.pc = "d_recv"]
    /\ UNCHANGED <<sessionVars, rr, pv>>

\* The server writes bytes of the file on the data connection; it closes
\* the connection after the last one.
SRV_send ==
    /\ rt.pc = "d_recv"
    /\ rt.toSend # << >>
    /\ \E k \in Moves(Len(rt.toSend), rt.partial) :
          rt' = [rt EXCEPT !.net = rt.net \o Take(rt.toSend, k),
                          !.toSend = Rest(rt.toSend, k),
                          !.partial = Partial(k, Len(rt.toSend), rt.partial)]
    /\ UNCHANGED <<sessionVars, rr, pv>>

\* Lines 184-188: chunk = data_sock.recv(8192); break when it is empty,
\* else f.write(chunk); total += len(chunk).
RT_download_recv ==
    /\ rt.pc = "d_recv"
    /\ \/ /\ rt.net # << >>
          /\ \E k \in Moves(Min(BufSize, Len(rt.net)), rt.partial) :
                rt' = [rt EXCEPT !.chunk = Take(rt.net, k),
                                !.net = Rest(rt.net, k),
                                !.dest = rt.dest \o Take(rt.net, k),
                                !.total = Count(rt.total, Take(rt.net, k)),
                                !.partial = Partial(k, Min(BufSize, Len(rt.net)),
                                                    rt.partial)]
       \/ /\ rt.net = << >> /\ rt.toSend = << >>
          /\ rt' = [rt EXCEPT !.chunk = << >>, !.pc = "d_close"]
       \/ rt' = [rt EXCEPT !.raised = "download", !.pc = "raised"]
    /\ UNCHANGED <<sessionVars, rr, pv>>

\* Lines 189-191: data_sock.close(), the final response, return total.
RT_download_return ==
    /\ rt.pc = "d_close"
    /\ rt' = [rt EXCEPT !.down = rt.total, !.pc = "done"]
    /\ UNCHANGED <<sessionVars, rr, pv>>

NextRT ==
    \/ RT_upload_begin
    \/ RT_upload_read
    \/ RT_upload_send
    \/ SRV_store
    \/ RT_upload_close
    \/ RT_upload_return
    \/ RT_download_begin
    \/ SRV_send
    \/ RT_download_recv
    \/ RT_download_return

RoundTripSpec == InitRT /\ [][NextRT]_vars

(* ------------------------------ claims -------------------------------- *)

\* A response is always read through the file made from the connected
\* socket: no read happens with self._file None or made from an old socket.
ReadsFromCurrentFile == At("read") => _file = "cur"

\* The step taken reads a response for a _command that expects a code.
ReadsExpecting == pc > 0 /\ Cur.i = "read" /\ Cur.expect # 0 /\ nread' = nread + 1

\* The step taken raises the FTPError of line 89 to the caller.
RaisesExpected == pc > 0 /\ err.type = "none" /\ err'.text = "Expected"

\* C1: in rename, a reply to RNFR other than 350 ends the call at once with
\* RNFR the only command written, and RNTO is written only when the one
\* response read so far, the reply to RNFR, had code 350.
C1_RenameStopsAfterRnfr ==
    [][ /\ (call = "rename" /\ pc = 2 /\ nread' = 1 /\ reply'.code # 350)
            => (pc' = 0 /\ err'.type = "FTPError" /\ wire' = <<"RNFR">>)
        /\ (call = "rename" /\ wire' # wire /\ wire' = <<"RNFR", "RNTO">>)
            => (nread = 1 /\ reply.code = 350)
        /\ (call' = "rename" /\ Len(wire') = 2) => wire' = <<"RNFR", "RNTO">>
      ]_vars

\* C1 witness: rename has failed on a reply to RNFR that is not 350, with
\* RNFR the only command on the wire.
C1_Witness ==
    /\ call = "rename" /\ pc = 0
    /\ err.type = "FTPError" /\ err.expect = 350 /\ reply.code = 550
    /\ wire = <<"RNFR">>

\* C2: at most one data connection of the session is open.
C2_OneDataConnection == OpenData <= 1

\* C3: when no call is in progress, no data connection is open.
C3_DataClosedOnExit == pc = 0 => OpenData = 0

\* C4: at most one control connection of the session is open.
C4_OneControlConnection == OpenCtrl <= 1

\* C5: a command is written on the control connection only when no response
\* to an earlier command is still unread.
C5_NoPipelining == [][ wire' # wire /\ wire' # << >> => Pending = 0 ]_vars

\* C6: a call of pwd, cwd, mkd, rmd, delete or size never writes more than
\* one command nor reads more than one response, and when it has returned
\* or failed on the expected code it has written exactly one command and
\* read exactly one response.
C6_OneCommandOneResponse ==
    call \in SimpleMethods =>
        /\ Len(wire) <= 1 /\ nread <= Len(wire)
        /\ (pc = 0 /\ (err.type = "none" \/ err.text = "Expected"))
            => (Len(wire) = 1 /\ nread = 1)

\* C6 witness: cwd has failed on the expected code after one command and
\* one response.
C6_Witness ==
    /\ call = "cwd" /\ pc = 0 /\ err.text = "Expected"
    /\ wire = <<"CWD">> /\ nread = 1

\* C7: when a command expects a code, a response with another code raises
\* an FTPError made of the expected code, the code read and the whole
\* message read; a response with the expected code raises nothing.
C7_MismatchRaises ==
    [][ ReadsExpecting =>
          IF reply'.code # Cur.expect
          THEN /\ pc' = 0
               /\ err' = Exc("FTPError", "Expected", Cur.expect, reply'.code,
                             reply'.message)
          ELSE pc' = pc + 1 /\ err'.type = "none"
      ]_vars

\* C7 witness: mkd has failed on a two-line 250 response, and the error
\* holds 257, 250 and both lines.
C7_Witness ==
    /\ call = "mkd" /\ pc = 0
    /\ err.expect = 257 /\ err.code = 250 /\ Len(err.message) = 2

\* C8: the step that raises the FTPError of line 89 ends the call, changes
\* neither the session's sockets nor the server's end, writes no command,
\* and has read exactly one response.
C8_MismatchOnlyEndsCall ==
    [][ RaisesExpected =>
          /\ pc' = 0
          /\ UNCHANGED <<_socket, _file, oldCtrl, srvClosed, wire, data_sock,
                         oldData>>
          /\ nread' = nread + 1 /\ Len(ctrlIn') <= Len(ctrlIn)
      ]_vars

\* C8 witness: the call after one that failed on the expected code has
\* written its command, read the response to it and returned.
C8_Witness ==
    /\ prev /\ call = "pwd" /\ pc = 0 /\ err.type = "none"
    /\ wire = <<"PWD">> /\ nread = 1 /\ reply.kind = "reply"
    /\ ctrlIn = << >> /\ _socket = "conn"

\* The integer at the end of a message: its last whitespace-separated
\* token, -1 when that is no integer.
TrailingInt(message) ==
    LET last == message[Len(message)]
    IN  IF last.body = << >> THEN last.code
        ELSE IF last.body[Len(last.body)].t = "int"
             THEN last.body[Len(last.body)].v
             ELSE -1

\* C9: size returns 0 and raises nothing when the code of the reply is not
\* 213, and returns the integer at the end of the message when it is 213.
C9_SizeResult ==
    (call = "size" /\ pc = 0 /\ nread = 1) =>
        /\ reply.code # 213 => (err.type = "none" /\ result = [t |-> "int", n |-> 0])
        /\ (reply.code = 213 /\ TrailingInt(reply.message) # -1)
            => (err.type = "none"
                /\ result = [t |-> "int", n |-> TrailingInt(reply.message)])

\* C9 witness: size has returned 0 for a 550 reply.
C9_Witness ==
    /\ call = "size" /\ pc = 0 /\ reply.code = 550
    /\ result = [t |-> "int", n |-> 0] /\ err.type = "none"

\* C10: when close() has returned it has raised nothing and the control
\* connection is closed.
C10_CloseReleases ==
    (call = "close" /\ pc = 0) => (err.type = "none" /\ ~CtrlConnOpen)

\* The reply _command("PASV") returned passes the checks of _pasv.
PasvReplyGood == reply.code = 227 /\ HasHostPort(reply.message)

\* C11: in list, download and upload, when the reply to PASV has a code
\* other than 227 or holds no parenthesized group of six integers, the
\* check of the reply ends the call with an FTPError ("PASV failed" or
\* "Invalid PASV response"), no data connection is opened and PASV is the
\* only command written; a data connection is opened only after a good
\* reply, and TYPE, LIST, RETR and STOR are written only with it open.
C11_PasvFailureStops ==
    [][ (call \in DataMethods) =>
          /\ (pc > 0 /\ Cur.i = "pasv" /\ pc' # pc /\ ~PasvReplyGood) =>
                /\ pc' = 0 /\ err'.type = "FTPError"
                /\ err'.text = (IF reply.code # 227 THEN "PASV failed"
                                ELSE "Invalid PASV response")
                /\ data_sock' = "None" /\ oldData' = oldData
                /\ wire' = <<"PASV">>
          /\ (data_sock' = "open" /\ data_sock # "open") => PasvReplyGood
          /\ (wire' # wire /\ Len(wire') >= 2) => data_sock = "open"
      ]_vars

\* C11 witness: list has failed on a 227 reply without the six integers,
\* with PASV the only command written and no data connection.
C11_Witness ==
    /\ call = "list" /\ pc = 0 /\ reply.code = 227
    /\ err.text = "Invalid PASV response"
    /\ wire = <<"PASV">> /\ data_sock = "None" /\ oldData = 0

\* In a connect: USER then PASS are the only commands written, USER after
\* one response (the greeting) was read and PASS after two, and a connect
\* that has returned has written both, read three responses, left none
\* unread and holds the connected socket.
ConnectInOrder ==
    /\ wire \in {<< >>, <<"USER">>, <<"USER", "PASS">>}
    /\ nread <= Len(wire) + 1
    /\ wire # << >> => nread >= Len(wire)
    /\ nread = 1 => reply.kind = "greeting"
    /\ (pc = 0 /\ err.type = "none") =>
          /\ wire = <<"USER", "PASS">> /\ nread = 3 /\ ctrlIn = << >>
          /\ _socket = "conn" /\ _file = "cur"
          /\ result = [t |-> "self", n |-> 0]

\* C13: connect reads the greeting, writes USER, reads its response,
\* writes PASS and reads its response, in that order and each once; no
\* response read in connect ends it, whatever its code; and once connect
\* has returned the caller may start every other method.
C13_ConnectSequence ==
    [][ (call' \in ConnectMethods) =>
          /\ ConnectInOrder'
          /\ (call = call' /\ nread' = nread + 1) =>
                (pc' = pc + 1 /\ err'.type = "none")
          /\ (call = call' /\ pc = 0 /\ err.type = "none") =>
                \A m \in SimpleMethods \cup CloseMethods \cup {"rename"} :
                    ENABLED Call(m)
      ]_vars

\* C13 witness: connect has returned connected although PASS was answered
\* 550.
C13_Witness ==
    /\ call = "connect" /\ pc = 0 /\ err.type = "none"
    /\ wire = <<"USER", "PASS">> /\ nread = 3 /\ reply.code = 550
    /\ _socket = "conn"

\* C16 as stated: in list, once LIST is written no response is read while
\* the data connection is open, and one response in all is read after LIST
\* (two in the call, with the reply to PASV).
C16_NoReadBeforeDataEof ==
    (call = "list" /\ Len(wire) = 2) =>
        /\ data_sock = "open" => nread = 1
        /\ nread <= 2

\* C16 amended: in list, the reply to LIST is read right after LIST is
\* written, before any data byte is received; no other response is read
\* until the data was received to its end and the data connection closed;
\* a list that returns has read two responses after LIST (three in the
\* call, with the reply to PASV).
C16_ReplyThenDataThenFinal ==
    (call = "list" /\ Len(wire) = 2) =>
        /\ wire = <<"PASV", "LIST">>
        /\ nread \in 1..3
        /\ total > 0 => nread >= 2
        /\ data_sock = "open" => nread <= 2
        /\ (data_sock = "closed" /\ nread = 2) => dataIn = 0
        /\ (pc = 0 /\ err.type = "none") => nread = 3

\* C16 witness: list has returned after receiving data, with three
\* responses read.
C16_Witness ==
    /\ call = "list" /\ pc = 0 /\ err.type = "none"
    /\ wire = <<"PASV", "LIST">> /\ nread = 3 /\ total = MaxLen
    /\ result = [t |-> "entries", n |-> MaxLen]

\* The transfer command of the call, and the responses the call reads
\* when it runs to its end.
XferCmd ==
    CASE call = "list" -> "LIST"
      [] call = "download" -> "RETR"
      [] call = "upload" -> "STOR"
      [] OTHER -> ""
Sent(cmd) == \E k \in 1..Len(wire) : wire[k] = cmd
ReadsInAll == IF call = "list" THEN 3 ELSE 4

\* C17: in list, download and upload, the data connection is opened after
\* the reply to PASV was read; the transfer command is written with the
\* data connection open and no data moved yet; data moves only after the
\* transfer command, on the open data connection; the data connection is
\* closed only once the data ended (end of stream, or source exhausted);
\* the final response is read with the data connection closed; and the
\* call returns normally only after the final response was read.
C17_TransferOrder ==
    [][ (call \in DataMethods /\ pc > 0) =>
          /\ (data_sock' = "open" /\ data_sock # "open") =>
                (nread = 1 /\ wire = <<"PASV">> /\ reply.code = 227)
          /\ (wire' # wire /\ wire'[Len(wire')] = XferCmd) =>
                (data_sock = "open" /\ total = 0 /\ ~Sent(XferCmd))
          /\ total' # total => (Sent(XferCmd) /\ data_sock = "open")
          /\ (data_sock' = "closed" /\ data_sock # "closed") =>
                /\ data_sock = "open" /\ Sent(XferCmd)
                /\ nread = ReadsInAll - 1
                /\ IF call = "upload" THEN src = 0 ELSE dataIn = 0
          /\ nread' = ReadsInAll => (nread' = nread \/ data_sock = "closed")
          /\ (pc' = 0 /\ err'.type = "none") =>
                (nread = ReadsInAll /\ data_sock = "closed"
                 /\ result'.n = total)
      ]_vars

\* C17 witness: upload has returned normally after sending its source and
\* reading the final response.
C17_Witness ==
    /\ call = "upload" /\ pc = 0 /\ err.type = "none"
    /\ wire = <<"PASV", "TYPE", "STOR">> /\ nread = 4
    /\ total = MaxLen /\ result = [t |-> "int", n |-> MaxLen]
    /\ reply.kind = "final"

\* C20: a step of close() or __exit__, in whatever state it was called,
\* opens no control connection; when it ends the call it has raised nothing
\* and the control connection is closed; and when the socket was closed
\* before (a second close) it changes nothing of the session.
C20_CloseSafeInEveryState ==
    [][ (call \in CloseMethods /\ pc > 0) =>
          /\ OpenCtrl' <= OpenCtrl
          /\ pc' = 0 => (err'.type = "none" /\ ~CtrlConnOpen')
          /\ _socket = "closed" => UNCHANGED <<_socket, _file, oldCtrl>>
      ]_vars

\* A line of the stream without its end of line; a continuation line has
\* a 4th character that is no space, a terminating line one that is a space.
Text(l) == rstrip(l)
IsContinuation(l) == Len(Text(l)) >= 4 /\ Text(l)[4] # " "
IsTerminating(l) == Len(Text(l)) >= 4 /\ Text(l)[4] = " "

\* The stream s starts with a well-formed response of n lines.
WellFormedAt(s, n) ==
    /\ n \in 1..Len(s) /\ IsTerminating(s[n])
    /\ \A k \in 1..(n - 1) : IsContinuation(s[k])

\* The first three columns of the line hold an integer, and its value.
HasCode(l) == \A i \in 1..3 : DigitOf(l[i]) # -1
CodeIn(l) == 100 * DigitOf(l[1]) + 10 * DigitOf(l[2]) + DigitOf(l[3])

\* The lines of a message: its parts between the LF characters.
RECURSIVE LinesOf(_)
LinesOf(m) ==
    IF \E i \in 1..Len(m) : m[i] = LF
    THEN LET i == CHOOSE i \in 1..Len(m) :
                    m[i] = LF /\ \A j \in 1..(i - 1) : m[j] # LF
         IN  <<SubSeq(m, 1, i - 1)>> \o LinesOf(SubSeq(m, i + 1, Len(m)))
    ELSE <<m>>

\* C14: when the stream starts with a well-formed response of n lines
\* whose terminating line starts with an integer, _read_response raises
\* nothing, never reads more than the n lines, and returns with exactly
\* these n lines consumed, the integer of the first three columns of the
\* n-th line as code, and as message the n lines in order (without their
\* ends of line, one LF between two lines).
C14_ReadsOneResponse ==
    rr.pc # "none" =>
        \A n \in 1..Len(rr.input) :
            (WellFormedAt(rr.input, n) /\ HasCode(rr.input[n])) =>
                /\ rr.pc # "raised"
                /\ Len(rr.input) - Len(rr.stream) <= n
                /\ rr.pc = "done" =>
                      /\ rr.stream = SubSeq(rr.input, n + 1, Len(rr.input))
                      /\ rr.ret.code = CodeIn(rr.input[n])
                      /\ LinesOf(rr.ret.message)
                            = [k \in 1..n |-> Text(rr.input[k])]

\* C14 witness: _read_response has returned 550 for the two-line response
\* "220-hi", "550 no" and left the line after it unread.
C14_Witness ==
    /\ rr.pc = "done" /\ Len(rr.input) = 3 /\ Len(rr.stream) = 1
    /\ rr.ret.code = 550
    /\ rr.lines = << <<"2", "2", "0", "-", "h", "i">>,
                     <<"5", "5", "0", " ", "n", "o">> >>

\* C15: when _read_response has read a line shorter than 4 characters, its
\* next step raises: it neither goes on reading nor returns a code.
C15_ShortLineRaises ==
    [][ (rr.pc = "append" /\ Len(rr.line) < 4) => rr'.pc = "raised" ]_vars

\* C19: every run of _read_response ends: it returns or raises.
C19_ReadTerminates == <>(rr.pc \in {"done", "raised"})

\* The parts of a host between its dots.
RECURSIVE Octets(_)
Octets(h) ==
    IF \E i \in 1..Len(h) : h[i] = "."
    THEN LET i == CHOOSE i \in 1..Len(h) :
                    h[i] = "." /\ \A j \in 1..(i - 1) : h[j] # "."
         IN  <<SubSeq(h, 1, i - 1)>> \o Octets(SubSeq(h, i + 1, Len(h)))
    ELSE <<h>>

\* C18: when the message of the 227 reply holds the six integers
\* (h1,h2,h3,h4,p1,p2), connect is called on the data socket with the host
\* whose four dot-separated parts are h1, h2, h3 and h4 in decimal and
\* with the port p1*256 + p2, whatever the values.
C18_PasvAddress ==
    (pv.pc # "none" /\ search(pv.msg) # 0) =>
        /\ pv.pc # "search" => pv.parts = pv.ints
        /\ pv.pc \in {"done", "raised"} =>
              /\ pv.addr.t = "addr"
              /\ pv.addr.port = pv.ints[5] * 256 + pv.ints[6]
              /\ Len(Octets(pv.addr.host)) = 4
              /\ \A k \in 1..4 :
                    LET o == Octets(pv.addr.host)[k]
                    IN  /\ int(o) = pv.ints[k]
                        /\ (Len(o) > 1 => o[1] # "0")

\* C18 witness: for (192,168,1,5,200,10) the data socket has connected to
\* 192.168.1.5, port 51210.
C18_Witness ==
    /\ pv.pc = "done" /\ pv.ints = <<192, 168, 1, 5, 200, 10>>
    /\ pv.addr.port = 51210
    /\ pv.addr.host = <<"1", "9", "2", ".", "1", "6", "8", ".", "1", ".", "5">>

\* C12: upload of a source of N bytes returns N and leaves the source as
\* the server's file; the download of the same path that follows returns
\* N and leaves in the local destination the bytes of the source, in
\* order.
C12_RoundTrip ==
    /\ rt.pc \in {"download", "d_recv", "d_close", "done"} =>
          (rt.up = Len(rt.source) /\ rt.stored = rt.source)
    /\ rt.pc = "done" =>
          (rt.down = Len(rt.source) /\ rt.dest = rt.source)

\* C12 witness: a source of one chunk and one byte has been uploaded and
\* downloaded, and both calls returned 8193.
C12_Witness ==
    /\ rt.pc = "done" /\ Len(rt.source) = BufSize + 1
    /\ rt.up = BufSize + 1 /\ rt.down = BufSize + 1 /\ rt.dest = rt.source

=============================================================================
